---- MODULE Spec2Model ----
(***************************************************************************)
(* A model of generate_markov_text.py: n-gram counting over a circular     *)
(* text, the Markov chain built from the counts, the weighted random walk  *)
(* that generates text, the decimal model-file codec, and main().          *)
(*                                                                         *)
(* Characters are code points (ord/chr).  A Python str is a sequence of    *)
(* code points.  A Python dict is a sequence of <<key, value>> pairs in    *)
(* insertion order.  A Python float is a fixed-point bit sequence that     *)
(* always holds a value with at most 53 significant bits; division and     *)
(* subtraction round to nearest, ties to even, as IEEE-754 doubles do.     *)
(***************************************************************************)
EXTENDS Integers, Sequences, FiniteSets, TLC

(***************************************************************************)
(* Bounds of the model.                                                    *)
(***************************************************************************)
\* Longest enumerated source text.
MaxLen == 4
\* Largest n-gram length given with -l.
MaxK == 3
\* Largest number of output letters given with -n.
MaxNumber == 4
\* random() is drawn from the grid x / 2^DrawBits, plus its largest value.
DrawBits == 2
\* Longest text, and largest n-gram length, of the tables given to the codec.
MaxCodecLen == 3
MaxCodecK == 2
\* Fraction bits of the fixed-point carrier of a float (probabilities down
\* to 2^-11 keep all 53 significant bits).
FracBits == 64

\* Significant bits of a Python float (IEEE-754 double).
MantissaBits == 53

\* Letters of the enumerated source texts: "a", "b".
TextAlphabet == {97, 98}
\* Code points the codec is exercised on: NUL, newline, the largest one.
CodecAlphabet == {0, 10, 1114111}

(***************************************************************************)
(* Python values.                                                          *)
(***************************************************************************)
None == <<>>
Some(v) == <<v>>
Return(v) == [error |-> "none", value |-> v]
Raise(e) == [error |-> e, value |-> <<>>]

\* s[a:b] and s[i] for 0 <= a, 0 <= i < len(s); s[i] is a string of length 1.
Slice(s, a, b) == SubSeq(s, a + 1, IF b < Len(s) THEN b ELSE Len(s))
At(s, i) == <<s[i + 1]>>

\* key in d, d[key], d[key] = val on an insertion-ordered dict.
DictHas(d, key) == \E i \in 1..Len(d) : d[i][1] = key
DictGet(d, key) == d[CHOOSE i \in 1..Len(d) : d[i][1] = key][2]
DictSet(d, key, val) ==
    IF DictHas(d, key)
    THEN [i \in 1..Len(d) |-> IF d[i][1] = key THEN <<key, val>> ELSE d[i]]
    ELSE Append(d, <<key, val>>)
DictKeys(d) == {d[i][1] : i \in 1..Len(d)}

(***************************************************************************)
(* compute_ngram_counts                                                    *)
(***************************************************************************)
\* The n-gram at positions [i, i + k), taking letters from the beginning
\* of the text when it extends beyond the end.
NgramAtNoWrap(text, k, i) == Slice(text, i, i + k)
NgramAt(text, k, i) ==
    IF i + k < Len(text)
    THEN Slice(text, i, i + k)
    ELSE Slice(text, i, Len(text)) \o Slice(text, 0, k - (Len(text) - i))

\* The letter following the n-gram at i.
NextLetterAtOffByOne(text, k, i) ==
    IF i + k < Len(text) THEN At(text, i + k)
    ELSE At(text, (k - (Len(text) - i) + 1) % Len(text))
NextLetterAt(text, k, i) ==
    IF i + k < Len(text) THEN At(text, i + k)
    ELSE At(text, k - (Len(text) - i))

\* Increase the count of next_letter; the first time it is seen, it is 1.
CountLetterNoIncrement(next_ngram_letters, next_letter) ==
    DictSet(next_ngram_letters, next_letter, 1)
CountLetter(next_ngram_letters, next_letter) ==
    IF DictHas(next_ngram_letters, next_letter)
    THEN DictSet(next_ngram_letters, next_letter,
                 DictGet(next_ngram_letters, next_letter) + 1)
    ELSE DictSet(next_ngram_letters, next_letter, 1)

\* One iteration of the loop over the start positions.
CountPosition(ngrams, text, k, i) ==
    LET ngram == NgramAt(text, k, i)
        next_letter == NextLetterAt(text, k, i)
        created == IF ~DictHas(ngrams, ngram)
                   THEN DictSet(ngrams, ngram, <<>>) ELSE ngrams
    IN  DictSet(created, ngram, CountLetter(DictGet(created, ngram), next_letter))

RECURSIVE CountLoop(_, _, _, _)
CountLoop(ngrams, text, k, i) ==
    IF i >= Len(text) THEN ngrams
    ELSE CountLoop(CountPosition(ngrams, text, k, i), text, k, i + 1)

TooShortOrEqual(text_length, k) == text_length <= k
TooShort(text_length, k) == text_length < k

compute_ngram_counts(text, k) ==
    IF TooShort(Len(text), k)
    THEN Raise("TextTooShort")
    ELSE Return(CountLoop(<<>>, text, k, 0))

(***************************************************************************)
(* Python floats.  A float is a sequence of 1 + FracBits bits: the integer *)
(* bit, then the fraction bits, most significant first.                    *)
(***************************************************************************)
FloatLen == FracBits + 1

\* 2^i mod w, by repeated squaring.
RECURSIVE Pow2Mod(_, _)
Pow2Mod(i, w) ==
    IF i = 0 THEN 1 % w
    ELSE IF i % 2 = 0
    THEN LET h == Pow2Mod(i \div 2, w) IN (h * h) % w
    ELSE (2 * Pow2Mod(i - 1, w)) % w

\* What long division of c by w has left after i fraction bits.
DivRem(c, w, i) == (c * Pow2Mod(i, w)) % w

\* c / w for 0 <= c <= w, w > 0: the integer bit, FracBits fraction bits
\* by long division, and a sticky bit saying whether anything is left.
ExactQuotient(c, w) ==
    SubSeq([i \in 1..(FracBits + 2) |->
               IF i = 1 THEN c \div w
               ELSE IF i = FracBits + 2
               THEN (IF DivRem(c, w, FracBits) # 0 THEN 1 ELSE 0)
               ELSE (IF 2 * DivRem(c, w, i - 2) >= w THEN 1 ELSE 0)],
           1, FracBits + 2)

\* Round to MantissaBits significant bits, to nearest, ties to even.  Rounding
\* up adds one at the last kept bit: the lowest 0 bit at or above it becomes
\* 1 and the kept bits below it become 0.
RoundToDouble(b) ==
    LET n == Len(b)
    IN  IF \A i \in 1..n : b[i] = 0 THEN b
        ELSE LET lead == CHOOSE i \in 1..n :
                             b[i] = 1 /\ \A j \in 1..(i - 1) : b[j] = 0
                 last == lead + MantissaBits - 1
             IN  IF last >= n THEN b
                 ELSE LET guard == b[last + 1]
                          sticky == \E i \in (last + 2)..n : b[i] = 1
                          z == CHOOSE i \in 1..last :
                                   b[i] = 0 /\ \A j \in (i + 1)..last : b[j] = 1
                      IN  IF guard = 1 /\ (sticky \/ b[last] = 1)
                          THEN SubSeq(b, 1, z - 1) \o <<1>>
                                   \o SubSeq([i \in 1..n |-> 0], 1, n - z)
                          ELSE SubSeq(b, 1, last)
                                   \o SubSeq([i \in 1..n |-> 0], 1, n - last)

\* count / weight with weight a float holding an integer.
FloatDiv(c, w) == SubSeq(RoundToDouble(ExactQuotient(c, w)), 1, FloatLen)

\* a - b for a >= b, bit by bit: position i borrows from position i - 1
\* when the bits below i of a are less than those of b.
SubBits(a, b) ==
    LET borrow(i) ==
            IF \E j \in (i + 1)..FloatLen :
                   /\ a[j] < b[j]
                   /\ \A m \in (i + 1)..(j - 1) : a[m] = b[m]
            THEN 1 ELSE 0
    IN  SubSeq([i \in 1..FloatLen |-> (a[i] - b[i] - borrow(i) + 2) % 2],
               1, FloatLen)
FloatSub(a, b) == RoundToDouble(SubBits(a, b))

\* a < b.
BitsLess(a, b) ==
    \E i \in 1..Len(a) : /\ a[i] < b[i]
                         /\ \A j \in 1..(i - 1) : a[j] = b[j]
FloatLess(a, b) == BitsLess(a, b)

RECURSIVE Pow2(_)
Pow2(n) == IF n = 0 THEN 1 ELSE 2 * Pow2(n - 1)

\* The values of random(): multiples of 2^-53 in [0, 1).  x / 2^g, and the
\* largest one, 1 - 2^-53.
DrawOf(x, g) ==
    SubSeq([i \in 1..FloatLen |->
               IF i >= 2 /\ i <= g + 1 THEN (x \div Pow2(g + 1 - i)) % 2 ELSE 0],
           1, FloatLen)
MaxDraw ==
    SubSeq([i \in 1..FloatLen |->
               IF i >= 2 /\ i <= MantissaBits + 1 THEN 1 ELSE 0],
           1, FloatLen)
Draws == {DrawOf(x, DrawBits) : x \in 0..(Pow2(DrawBits) - 1)} \cup {MaxDraw}

(***************************************************************************)
(* MarkovChainNode and build_markov_chain.  A node is referred to by its   *)
(* n-gram, the key under which chain_nodes holds it.                       *)
(***************************************************************************)
MarkovChainNode(ngram) == [ngram |-> ngram, next_states |-> <<>>]

\* list.sort(key = probability, reverse = True): a stable sort, so pairs of
\* equal probability keep the order they had.
RECURSIVE SortByProbability(_)
SortByProbability(states) ==
    IF states = <<>> THEN <<>>
    ELSE LET n == Len(states)
             pair == states[n]
             sorted == SortByProbability(SubSeq(states, 1, n - 1))
             before == {i \in 1..(n - 1) : ~FloatLess(sorted[i][2], pair[2])}
         IN  SubSeq(sorted, 1, Cardinality(before)) \o <<pair>>
                 \o SubSeq(sorted, Cardinality(before) + 1, n - 1)

AddNextStateUnsorted(node, target, probability) ==
    [node EXCEPT !.next_states = Append(@, <<target, probability>>)]
add_next_state(node, target, probability) ==
    [node EXCEPT !.next_states =
        SortByProbability(Append(@, <<target, probability>>))]

\* The scan of get_next_state from edge j on, with what is left of the draw.
RECURSIVE ScanStates(_, _, _)
ScanStates(next_states, j, probability) ==
    IF j > Len(next_states) THEN Raise("NoNextState")
    ELSE IF FloatLess(probability, next_states[j][2])
    THEN Return(next_states[j][1])
    ELSE ScanStates(next_states, j + 1,
                    FloatSub(probability, next_states[j][2]))

GetNextStateFirst(node, probability) ==
    IF node.next_states = <<>> THEN Raise("NoNextState")
    ELSE Return(node.next_states[1][1])
get_next_state(node, probability) ==
    ScanStates(node.next_states, 1, probability)

RECURSIVE SumCounts(_)
SumCounts(next_letters) ==
    IF next_letters = <<>> THEN 0
    ELSE next_letters[1][2] + SumCounts(Tail(next_letters))

\* ngram[1:] + letter
NextStateNgramNoShift(ngram, letter) ==
    SubSeq(ngram, 1, Len(ngram) - 1) \o letter
NextStateNgram(ngram, letter) == Tail(ngram) \o letter

\* The loop over the letters of one n-gram, from the j-th on.
RECURSIVE ConnectLetters(_, _, _, _, _)
ConnectLetters(chain_nodes, ngram, next_letters, weight, j) ==
    IF j > Len(next_letters) THEN Return(chain_nodes)
    ELSE LET letter == next_letters[j][1]
             count == next_letters[j][2]
             next_state_ngram == NextStateNgram(ngram, letter)
         IN  IF ~DictHas(chain_nodes, next_state_ngram)
             THEN Raise("KeyError")
             ELSE IF weight = 0 THEN Raise("ZeroDivisionError")
             ELSE ConnectLetters(
                      DictSet(chain_nodes, ngram,
                              add_next_state(DictGet(chain_nodes, ngram),
                                             next_state_ngram,
                                             FloatDiv(count, weight))),
                      ngram, next_letters, weight, j + 1)

\* The loop over the n-grams, from the i-th on.
RECURSIVE ConnectNgrams(_, _, _)
ConnectNgrams(chain_nodes, ngrams, i) ==
    IF i > Len(ngrams) THEN Return(chain_nodes)
    ELSE LET ngram == ngrams[i][1]
             next_letters == ngrams[i][2]
             connected == ConnectLetters(chain_nodes, ngram, next_letters,
                                         SumCounts(next_letters), 1)
         IN  IF connected.error # "none" THEN connected
             ELSE ConnectNgrams(connected.value, ngrams, i + 1)

build_markov_chain(ngrams) ==
    ConnectNgrams([i \in 1..Len(ngrams) |->
                      <<ngrams[i][1], MarkovChainNode(ngrams[i][1])>>],
                  ngrams, 1)

(***************************************************************************)
(* The model file.  Its content is a sequence of characters, each a        *)
(* one-character string: digits, " ", "\n", and "x" for any other one.     *)
(***************************************************************************)
DigitChars == <<"0", "1", "2", "3", "4", "5", "6", "7", "8", "9">>
Whitespace == {" ", "\n"}
\* The largest code point chr() accepts (sys.maxunicode).
MaxUnicode == 1114111

\* str(n) for n >= 0.
RECURSIVE Str(_)
Str(n) ==
    IF n < 10 THEN <<DigitChars[n + 1]>>
    ELSE Str(n \div 10) \o <<DigitChars[(n % 10) + 1]>>

\* sep.join(parts)
RECURSIVE Join(_, _)
Join(sep, parts) ==
    IF parts = <<>> THEN <<>>
    ELSE IF Len(parts) = 1 THEN parts[1]
    ELSE parts[1] \o sep \o Join(sep, Tail(parts))

\* The elements of a set of numbers in increasing order.
Sorted(S) ==
    [n \in 1..Cardinality(S) |->
        CHOOSE e \in S : Cardinality({y \in S : y < e}) = n - 1]

\* s.split(): the maximal runs of characters that are not whitespace.
Split(s) ==
    LET starts == {i \in 1..Len(s) :
                      s[i] \notin Whitespace /\ (i = 1 \/ s[i - 1] \in Whitespace)}
        stop(i) == CHOOSE e \in i..Len(s) :
                       /\ \A m \in i..e : s[m] \notin Whitespace
                       /\ (e = Len(s) \/ s[e + 1] \in Whitespace)
        ordered == Sorted(starts)
    IN  [n \in 1..Cardinality(starts) |-> SubSeq(s, ordered[n], stop(ordered[n]))]

\* The lines of a file, each with its "\n" (the last one may have none):
\* what successive calls of readline() return before they return "".
Lines(content) ==
    LET ends == {i \in 1..Len(content) : content[i] = "\n" \/ i = Len(content)}
        ordered == Sorted(ends)
    IN  [n \in 1..Cardinality(ends) |->
            SubSeq(content, IF n = 1 THEN 1 ELSE ordered[n - 1] + 1, ordered[n])]
ReadLine(content, n) ==
    IF n <= Len(Lines(content)) THEN Lines(content)[n] ELSE <<>>

\* int(token): the token is read as a decimal number.
DigitValue(c) == CHOOSE d \in 0..9 : DigitChars[d + 1] = c
IsDecimal(token) ==
    /\ token # <<>>
    /\ \A i \in 1..Len(token) : \E d \in 1..10 : DigitChars[d] = token[i]
RECURSIVE DecimalValue(_)
DecimalValue(token) ==
    IF token = <<>> THEN 0
    ELSE 10 * DecimalValue(SubSeq(token, 1, Len(token) - 1))
             + DigitValue(token[Len(token)])
\* int(token) that reads a token that is no number as 0.
PyIntLenient(token) ==
    IF IsDecimal(token) THEN Return(DecimalValue(token)) ELSE Return(0)
PyInt(token) ==
    IF IsDecimal(token) THEN Return(DecimalValue(token)) ELSE Raise("ValueError")

\* " ".join([str(ord(letter)) for letter in text])
StringToDecimalNoSeparator(text) ==
    Join(<<>>, [i \in 1..Len(text) |-> Str(text[i])])
string_to_decimal(text) ==
    Join(<<" ">>, [i \in 1..Len(text) |-> Str(text[i])])

\* "".join([chr(int(number)) for number in decimal.split()])
string_from_decimal(decimal) ==
    LET numbers == Split(decimal)
    IN  IF \E i \in 1..Len(numbers) :
               \/ PyInt(numbers[i]).error # "none"
               \/ PyInt(numbers[i]).value > MaxUnicode
        THEN Raise("ValueError")
        ELSE Return([i \in 1..Len(numbers) |-> PyInt(numbers[i]).value])

\* "{0} {1} ".format(string_to_decimal(letter), count), for each pair
RECURSIVE WriteLetters(_)
WriteLetters(next_letters) ==
    IF next_letters = <<>> THEN <<>>
    ELSE string_to_decimal(next_letters[1][1]) \o <<" ">>
             \o Str(next_letters[1][2]) \o <<" ">>
             \o WriteLetters(Tail(next_letters))

\* One line per n-gram: the n-gram, the number of letters, the pairs.
RECURSIVE WriteNgrams(_)
WriteNgrams(ngrams) ==
    IF ngrams = <<>> THEN <<>>
    ELSE string_to_decimal(ngrams[1][1]) \o <<" ">>
             \o Str(Len(ngrams[1][2])) \o <<" ">>
             \o WriteLetters(ngrams[1][2]) \o <<"\n">>
             \o WriteNgrams(Tail(ngrams))

\* What write_ngram_counts_to_file leaves in the file.
write_ngram_counts_to_file(ngrams, ngram_length) ==
    Str(ngram_length) \o <<" ">> \o Str(Len(ngrams)) \o <<"\n">>
        \o WriteNgrams(ngrams)

\* The loop over the letter-count pairs of one line, from the j-th on.
RECURSIVE ReadLetters(_, _, _, _, _)
ReadLetters(ngram_info, ngram_length, next_letter_count, j, next_letters) ==
    IF j >= next_letter_count THEN Return(next_letters)
    ELSE IF 1 + ngram_length + (j * 2) >= Len(ngram_info) THEN Raise("IndexError")
    ELSE LET letter == string_from_decimal(At(ngram_info, 1 + ngram_length + (j * 2))[1])
         IN  IF letter.error # "none" THEN letter
             ELSE IF 1 + ngram_length + (j * 2 + 1) >= Len(ngram_info)
             THEN Raise("IndexError")
             ELSE LET count == PyInt(At(ngram_info, 1 + ngram_length + (j * 2 + 1))[1])
                  IN  IF count.error # "none" THEN count
                      ELSE ReadLetters(ngram_info, ngram_length, next_letter_count,
                                       j + 1,
                                       DictSet(next_letters, letter.value, count.value))

\* The loop over the n-gram lines, from the i-th on.
RECURSIVE ReadNgrams(_, _, _, _, _)
ReadNgrams(content, ngram_length, ngram_count, i, ngrams) ==
    IF i >= ngram_count THEN Return(ngrams)
    ELSE LET ngram_info == Split(ReadLine(content, i + 2))
             ngram_value == string_from_decimal(
                                Join(<<" ">>, Slice(ngram_info, 0, ngram_length)))
         IN  IF ngram_value.error # "none" THEN ngram_value
             ELSE IF ngram_length >= Len(ngram_info) THEN Raise("IndexError")
             ELSE LET next_letter_count == PyInt(At(ngram_info, ngram_length)[1])
                  IN  IF next_letter_count.error # "none" THEN next_letter_count
                      ELSE LET next_letters ==
                                   ReadLetters(ngram_info, ngram_length,
                                               next_letter_count.value, 0, <<>>)
                           IN  IF next_letters.error # "none" THEN next_letters
                               ELSE ReadNgrams(content, ngram_length, ngram_count,
                                               i + 1,
                                               DictSet(ngrams, ngram_value.value,
                                                       next_letters.value))

\* read_ngram_counts_from_file on a file of this content: (ngrams, ngram_length).
read_ngram_counts_from_file(content) ==
    LET header == Split(ReadLine(content, 1))
    IN  IF \E i \in 1..Len(header) : PyInt(header[i]).error # "none"
        THEN Raise("ValueError")
        ELSE IF Len(header) # 2 THEN Raise("ValueError")
        ELSE LET ngram_length == PyInt(header[1]).value
                 ngram_count == PyInt(header[2]).value
                 ngrams == ReadNgrams(content, ngram_length, ngram_count, 0, <<>>)
             IN  IF ngrams.error # "none" THEN ngrams
                 ELSE Return(<<ngrams.value, ngram_length>>)

(***************************************************************************)
(* generate_text and write_text_to_file                                    *)
(***************************************************************************)
\* node.ngram[-1]
FirstLetter(ngram) == <<ngram[1]>>
LastLetter(ngram) == <<ngram[Len(ngram)]>>

\* The condition of the while loop of generate_text.
LengthNotReachedOrEqual(text_length, length) == text_length <= length
LengthNotReached(text_length, length) == text_length < length

\* string.whitespace
StringWhitespace == {32, 9, 10, 13, 11, 12}
words_per_line == 12

\* What write_text_to_file writes: every whitespace counts a word, and the
\* one that completes a line is written as "\n".
write_text_to_file(text) ==
    LET words(i) == Cardinality({j \in 1..i : text[j] \in StringWhitespace})
    IN  [i \in 1..Len(text) |->
            IF text[i] \in StringWhitespace /\ words(i) % words_per_line = 0
            THEN 10 ELSE text[i]]

(***************************************************************************)
(* The inputs of a run: the command line and the files it names.  An       *)
(* option is None or Some(value); -s and -r carry the content of the file  *)
(* they name.                                                              *)
(***************************************************************************)
RECURSIVE SeqsOfLen(_, _)
SeqsOfLen(S, n) ==
    IF n = 0 THEN {<<>>}
    ELSE {Append(s, e) : s \in SeqsOfLen(S, n - 1), e \in S}
SeqsUpTo(S, n) == UNION {SeqsOfLen(S, m) : m \in 0..n}

Texts == SeqsUpTo(TextAlphabet, MaxLen)
\* "abab" and "aaaabababac"
TextAbab == <<97, 98, 97, 98>>
TextSevenths == <<97, 97, 97, 97, 98, 97, 98, 97, 98, 97, 99>>

\* A model file given as its lines of tokens.
ModelFile(lines) ==
    Join(<<>>, [i \in 1..Len(lines) |->
                   Join(<<" ">>, [j \in 1..Len(lines[i]) |->
                                     IF lines[i][j] = -1 THEN <<"x">>
                                     ELSE Str(lines[i][j])])
                       \o <<"\n">>])
SampleModelFiles ==
    { ModelFile(<< <<1, 2>>, <<97, 1, 98, 2>>, <<98, 2, 97, 1, 98, 1>> >>),
      ModelFile(<< <<2, 2>>, <<97, 98, 1, 97, 3>>, <<98, 97, 1, 98, 1>> >>),
      ModelFile(<< <<1, 1>>, <<97, 1, 98, 2>> >>),
      ModelFile(<< <<1, 2>>, <<97, 1, 97, 1>> >>),
      ModelFile(<< <<1, 1>>, <<97, 1, 97, -1>> >>),
      ModelFile(<< <<1, 1>>, <<97, 1, 97, 0>> >>),
      ModelFile(<< <<1, 0>> >>) }

Sinks == { [console |-> c, output |-> o] :
             c \in {None, Some(TRUE)}, o \in {None, Some("output")} }
MakeOptions(source, length, number, sinks, read_markov, write_markov) ==
    [source |-> source, length |-> length, number |-> number,
     console |-> sinks.console, output |-> sinks.output,
     read_markov |-> read_markov, write_markov |-> write_markov]

\* Runs on a source text, printed on the console.
SourceRuns ==
    { MakeOptions(Some(t), Some(k), Some(n),
                  [console |-> Some(TRUE), output |-> None], None, None) :
        t \in Texts, k \in 1..MaxK, n \in 1..MaxNumber }
\* Runs on a source text with every combination of sinks.
SinkRuns ==
    { MakeOptions(Some(t), Some(k), Some(n), sk, None, w) :
        t \in {TextAbab, <<97>>}, k \in 1..2, n \in 1..2, sk \in Sinks,
        w \in {None, Some("markov")} }
\* Runs on a model file.
ModelRuns ==
    { MakeOptions(None, None, Some(n), sk, Some(f), w) :
        n \in 1..MaxNumber, sk \in Sinks, f \in SampleModelFiles,
        w \in {None, Some("markov")} }
\* Every combination of given and missing options.
OptionRuns ==
    { MakeOptions(s, k, n, sk, f, w) :
        s \in {None, Some(TextAbab)}, k \in {None, Some(1)},
        n \in {None, Some(1)}, sk \in Sinks,
        f \in {None, Some(ModelFile(<< <<1, 1>>, <<97, 1, 97, 1>> >>))},
        w \in {None, Some("markov")} }
\* "abab" with 1-grams and 6 letters; a text whose 1-gram "a" is followed
\* by "a", "b", "c" with counts 3, 3, 1.
SampleRuns ==
    { MakeOptions(Some(TextAbab), Some(1), Some(6),
                  [console |-> Some(TRUE), output |-> None], None, None),
      MakeOptions(Some(TextSevenths), Some(1), Some(2),
                  [console |-> Some(TRUE), output |-> None], None, None) }
Runs == SourceRuns \cup SinkRuns \cup ModelRuns \cup OptionRuns \cup SampleRuns

(***************************************************************************)
(* The state of a run of main.                                             *)
(***************************************************************************)
VARIABLES
    options,        \* the parsed command line
    pc,             \* where main is
    ngrams,         \* None, or Some(the count table)
    ngram_length,   \* None, or Some(k)
    chain,          \* None, or Some(the dict of chain nodes)
    node,           \* generate_text: the n-gram of the current node
    text,           \* generate_text: the list of letters
    text_length,    \* generate_text: its counter
    self,           \* get_next_state: the n-gram of the node last asked
    probability,    \* get_next_state: None, or Some(the last draw)
    output_text,    \* None, or Some(the generated text)
    console,        \* what was printed
    output_file,    \* None, or Some(what -o wrote)
    markov_file,    \* None, or Some(what -w wrote)
    error,          \* "none", or the exception that ended the run
    rc,             \* None, or Some(what main returned)
    \* The codec on its own: a table is written, the file may be edited by
    \* hand, and the file is read.
    codec_pc,       \* "idle", "table", "file" or "loaded"
    table,          \* the count table that is written
    table_length,   \* its n-gram length
    file,           \* the content of the model file
    edit,           \* what was done to the file since it was written
    loaded          \* what read_ngram_counts_from_file returned or raised

main_vars == <<options, pc, ngrams, ngram_length, chain, node, text,
               text_length, self, probability, output_text, console,
               output_file, markov_file, error, rc>>
codec_vars == <<codec_pc, table, table_length, file, edit, loaded>>
vars == <<main_vars, codec_vars>>

MainIdle ==
    /\ options = MakeOptions(None, None, None,
                             [console |-> None, output |-> None], None, None)
    /\ pc = "idle"
    /\ ngrams = None
    /\ ngram_length = None
    /\ chain = None
    /\ node = None
    /\ text = <<>>
    /\ text_length = 0
    /\ self = None
    /\ probability = None
    /\ output_text = None
    /\ console = <<>>
    /\ output_file = None
    /\ markov_file = None
    /\ error = "none"
    /\ rc = None

CodecIdle ==
    /\ codec_pc = "idle"
    /\ table = <<>>
    /\ table_length = 0
    /\ file = <<>>
    /\ edit = "none"
    /\ loaded = Raise("none")

Init ==
    /\ options \in Runs
    /\ pc = "options"
    /\ ngrams = None
    /\ ngram_length = None
    /\ chain = None
    /\ node = None
    /\ text = <<>>
    /\ text_length = 0
    /\ self = None
    /\ probability = None
    /\ output_text = None
    /\ console = <<>>
    /\ output_file = None
    /\ markov_file = None
    /\ error = "none"
    /\ rc = None
    /\ CodecIdle

\* An exception leaves main.
Abort(e) ==
    /\ error' = e
    /\ pc' = "done"

\* main prints a complaint and returns -1.
Complain(message) ==
    /\ console' = Append(console, <<message>>)
    /\ rc' = Some(-1)
    /\ pc' = "done"

\* Lines 234-247 and 255-257: the checks of the options.
CheckOptions ==
    /\ pc = "options"
    /\ IF options.number = None
       THEN Complain("Length of output text not specified!")
       ELSE IF options.console = None /\ options.output = None
       THEN Complain("No type of output specified!")
       ELSE IF options.source # None
       THEN IF options.read_markov # None
            THEN Complain("Source file and Markov chain file cannot be used at the same time!")
            ELSE IF options.length = None
            THEN Complain("Length of used n-gram not specified!")
            ELSE pc' = "source" /\ UNCHANGED <<console, rc>>
       ELSE IF options.read_markov = None
            THEN Complain("A data source must be specified!")
            ELSE pc' = "read_markov" /\ UNCHANGED <<console, rc>>
    /\ UNCHANGED codec_vars
    /\ UNCHANGED <<options, ngrams, ngram_length, chain, node, text, text_length,
                   self, probability, output_text, output_file, markov_file,
                   error>>

\* Lines 249-253: the source file is read and its n-grams are counted.
CountSource ==
    /\ pc = "source"
    /\ console' = Append(console, <<"Generating from source file">>)
    /\ \E found \in BOOLEAN :
         IF ~found
         THEN Abort("FileNotFoundError") /\ UNCHANGED <<ngrams, ngram_length>>
         ELSE LET counted == compute_ngram_counts(options.source[1],
                                                  options.length[1])
              IN  /\ ngram_length' = Some(options.length[1])
                  /\ IF counted.error # "none"
                     THEN Abort(counted.error) /\ UNCHANGED ngrams
                     ELSE ngrams' = Some(counted.value) /\ pc' = "build"
                          /\ UNCHANGED error
    /\ UNCHANGED codec_vars
    /\ UNCHANGED <<options, chain, node, text, text_length, self, probability,
                   output_text, output_file, markov_file, rc>>

\* Lines 259-261: the counts are read from a model file.
ReadMarkov ==
    /\ pc = "read_markov"
    /\ console' = Append(console, <<"Generating from Markov chain file">>)
    /\ \E found \in BOOLEAN :
         IF ~found
         THEN Abort("FileNotFoundError") /\ UNCHANGED <<ngrams, ngram_length>>
         ELSE LET read == read_ngram_counts_from_file(options.read_markov[1])
              IN  IF read.error # "none"
                  THEN Abort(read.error) /\ UNCHANGED <<ngrams, ngram_length>>
                  ELSE /\ ngrams' = Some(read.value[1])
                       /\ ngram_length' = Some(read.value[2])
                       /\ pc' = "build"
                       /\ UNCHANGED error
    /\ UNCHANGED codec_vars
    /\ UNCHANGED <<options, chain, node, text, text_length, self, probability,
                   output_text, output_file, markov_file, rc>>

\* Line 264.
BuildChain ==
    /\ pc = "build"
    /\ LET built == build_markov_chain(ngrams[1])
       IN  IF built.error # "none"
           THEN Abort(built.error) /\ UNCHANGED chain
           ELSE chain' = Some(built.value) /\ pc' = "generate" /\ UNCHANGED error
    /\ UNCHANGED codec_vars
    /\ UNCHANGED <<options, ngrams, ngram_length, node, text, text_length, self,
                   probability, output_text, console, output_file, markov_file,
                   rc>>

\* Lines 180-187: a start node is chosen and its n-gram is the first text.
StartText ==
    /\ pc = "generate"
    /\ IF chain[1] = <<>>
       THEN Abort("IndexError") /\ UNCHANGED <<node, text, text_length>>
       ELSE \E start \in DictKeys(chain[1]) :
                /\ node' = Some(start)
                /\ text' = [i \in 1..Len(start) |-> <<start[i]>>]
                /\ text_length' = Len(start)
                /\ pc' = "walk"
                /\ UNCHANGED error
    /\ UNCHANGED codec_vars
    /\ UNCHANGED <<options, ngrams, ngram_length, chain, self, probability,
                   output_text, console, output_file, markov_file, rc>>

\* Lines 189-192: one iteration of the loop, with the draw of random().
NextLetter ==
    /\ pc = "walk"
    /\ LengthNotReached(text_length, options.number[1])
    /\ \E r \in Draws :
         LET next == get_next_state(DictGet(chain[1], node[1]), r)
         IN  /\ self' = node
             /\ probability' = Some(r)
             /\ IF next.error # "none"
                THEN Abort(next.error) /\ UNCHANGED <<node, text, text_length>>
                ELSE /\ node' = Some(next.value)
                     /\ text' = Append(text, LastLetter(next.value))
                     /\ text_length' = text_length + 1
                     /\ UNCHANGED <<pc, error>>
    /\ UNCHANGED codec_vars
    /\ UNCHANGED <<options, ngrams, ngram_length, chain, output_text, console,
                   output_file, markov_file, rc>>

\* Line 194: the letters are joined and returned.
ReturnText ==
    /\ pc = "walk"
    /\ ~LengthNotReached(text_length, options.number[1])
    /\ output_text' = Some(Join(<<>>, text))
    /\ pc' = "console"
    /\ UNCHANGED codec_vars
    /\ UNCHANGED <<options, ngrams, ngram_length, chain, node, text, text_length,
                   self, probability, console, output_file, markov_file, error,
                   rc>>

PrintsToOutputOption(opts) == opts.output # None
PrintsToConsole(opts) == opts.console # None

\* Lines 267-268.
PrintText ==
    /\ pc = "console"
    /\ console' = IF PrintsToConsole(options)
                  THEN Append(console, <<"Output text", output_text[1]>>)
                  ELSE console
    /\ pc' = "output"
    /\ UNCHANGED codec_vars
    /\ UNCHANGED <<options, ngrams, ngram_length, chain, node, text, text_length,
                   self, probability, output_text, output_file, markov_file,
                   error, rc>>

\* Lines 270-271: the file may not open for writing.
WriteText ==
    /\ pc = "output"
    /\ IF options.output = None
       THEN pc' = "write_markov" /\ UNCHANGED <<output_file, error>>
       ELSE \E opened \in BOOLEAN :
                IF opened
                THEN /\ output_file' = Some(write_text_to_file(output_text[1]))
                     /\ pc' = "write_markov"
                     /\ UNCHANGED error
                ELSE Abort("PermissionError") /\ UNCHANGED output_file
    /\ UNCHANGED codec_vars
    /\ UNCHANGED <<options, ngrams, ngram_length, chain, node, text, text_length,
                   self, probability, output_text, console, markov_file, rc>>

\* Lines 273-276: the counts are exported, and main returns 0.
WriteMarkov ==
    /\ pc = "write_markov"
    /\ IF options.write_markov = None
       THEN /\ rc' = Some(0) /\ pc' = "done"
            /\ UNCHANGED <<markov_file, error>>
       ELSE \E opened \in BOOLEAN :
                IF opened
                THEN /\ markov_file' = Some(write_ngram_counts_to_file(
                                                ngrams[1], ngram_length[1]))
                     /\ rc' = Some(0) /\ pc' = "done"
                     /\ UNCHANGED error
                ELSE Abort("PermissionError") /\ UNCHANGED <<markov_file, rc>>
    /\ UNCHANGED codec_vars
    /\ UNCHANGED <<options, ngrams, ngram_length, chain, node, text, text_length,
                   self, probability, output_text, console, output_file>>

(***************************************************************************)
(* The codec on its own.                                                   *)
(***************************************************************************)
\* The tables of the texts over CodecAlphabet, and two made by hand: one
\* with counts of two digits, one of a single n-gram without successors.
CodecTables ==
    UNION { { <<compute_ngram_counts(t, k).value, k>> :
                t \in {u \in SeqsUpTo(CodecAlphabet, MaxCodecLen) : Len(u) >= k} } :
            k \in 1..MaxCodecK }
    \cup { << << << <<0, 10>>, << << <<1114111>>, 12 >>, << <<10>>, 1 >> >> >>,
                 << <<97, 32>>, << << <<0>>, 305 >> >> >> >>, 2 >>,
           << << << <<32>>, <<>> >> >>, 1 >> }

InitCodec ==
    /\ MainIdle
    /\ codec_pc = "table"
    /\ \E t \in CodecTables : table = t[1] /\ table_length = t[2]
    /\ file = <<>>
    /\ edit = "none"
    /\ loaded = Raise("none")

\* write_ngram_counts_to_file
WriteTable ==
    /\ codec_pc = "table"
    /\ file' = write_ngram_counts_to_file(table, table_length)
    /\ codec_pc' = "file"
    /\ UNCHANGED <<table, table_length, edit, loaded>>
    /\ UNCHANGED main_vars

\* The file with its n-th line replaced by the given lines.
WithLine(content, n, lines) ==
    Join(<<>>, SubSeq(Lines(content), 1, n - 1) \o lines
                   \o SubSeq(Lines(content), n + 1, Len(Lines(content))))
\* A line of the given fields.
LineOf(fields) == Join(<<" ">>, fields) \o <<"\n">>

\* Somebody edits the file once: a data line is removed or repeated, a
\* field is removed, added or garbled, or the header's count is changed.
EditFile ==
    /\ codec_pc = "file"
    /\ edit = "none"
    /\ \E n \in 1..Len(Lines(file)) :
         LET fields == Split(Lines(file)[n])
         IN  \/ /\ n > 1
                /\ file' = WithLine(file, n, <<>>)
                /\ edit' = "line removed"
             \/ /\ n > 1
                /\ file' = WithLine(file, n, <<Lines(file)[n], Lines(file)[n]>>)
                /\ edit' = "line added"
             \/ /\ n > 1
                /\ \E j \in 1..Len(fields) :
                     file' = WithLine(file, n,
                                 <<LineOf(SubSeq(fields, 1, j - 1)
                                          \o SubSeq(fields, j + 1, Len(fields)))>>)
                /\ edit' = "field removed"
             \/ /\ n > 1
                /\ file' = WithLine(file, n, <<LineOf(Append(fields, <<"7">>))>>)
                /\ edit' = "field added"
             \/ /\ \E j \in 1..Len(fields) :
                     file' = WithLine(file, n,
                                 <<LineOf([fields EXCEPT ![j] = <<"x">>])>>)
                /\ edit' = "field garbled"
             \/ /\ n = 1
                /\ \E count \in {PyInt(fields[2]).value - 1,
                                 PyInt(fields[2]).value + 1} :
                     /\ count >= 0
                     /\ file' = WithLine(file, 1,
                                    <<LineOf(<<fields[1], Str(count)>>)>>)
                /\ edit' = "count changed"
    /\ UNCHANGED <<codec_pc, table, table_length, loaded>>
    /\ UNCHANGED main_vars

\* read_ngram_counts_from_file
ReadTable ==
    /\ codec_pc = "file"
    /\ loaded' = read_ngram_counts_from_file(file)
    /\ codec_pc' = "loaded"
    /\ UNCHANGED <<table, table_length, file, edit>>
    /\ UNCHANGED main_vars

NextCodec ==
    \/ WriteTable
    \/ EditFile
    \/ ReadTable

SpecCodec == InitCodec /\ [][NextCodec]_vars

Next ==
    \/ CheckOptions
    \/ CountSource
    \/ ReadMarkov
    \/ BuildChain
    \/ StartText
    \/ NextLetter
    \/ ReturnText
    \/ PrintText
    \/ WriteText
    \/ WriteMarkov

Spec == Init /\ [][Next]_vars

(***************************************************************************)
(* Properties.                                                             *)
(***************************************************************************)
\* The run counted the n-grams of its source text.
Counted == options.source # None /\ ngrams # None
\* The letters of a text.
LettersOf(t) == {t[i] : i \in 1..Len(t)}
\* The count a table holds for letter after ngram, 0 when it holds none.
TableCount(t, ngram, letter) ==
    IF DictHas(t, ngram) /\ DictHas(DictGet(t, ngram), letter)
    THEN DictGet(DictGet(t, ngram), letter) ELSE 0
RECURSIVE TotalCount(_)
TotalCount(t) ==
    IF t = <<>> THEN 0 ELSE SumCounts(t[1][2]) + TotalCount(Tail(t))
\* A table as a mapping, whatever the order of its entries.
TableAsMap(t) ==
    [g \in DictKeys(t) |->
        [l \in DictKeys(DictGet(t, g)) |-> DictGet(DictGet(t, g), l)]]

\* C3: the table of a text of length >= k has every count >= 1 and the
\* counts of all n-grams sum to the length of the text.
C3_CountsSumToLength ==
    Counted =>
        /\ \A i \in 1..Len(ngrams[1]) :
             \A j \in 1..Len(ngrams[1][i][2]) : ngrams[1][i][2][j][2] >= 1
        /\ TotalCount(ngrams[1]) = Len(options.source[1])
C3_Witness ==
    /\ Counted
    /\ Len(options.source[1]) = 4
    /\ options.length[1] = 2
    /\ \E i \in 1..Len(ngrams[1]) : SumCounts(ngrams[1][i][2]) >= 2

\* C6: compute_ngram_counts raises the too-short error, and returns no
\* table, exactly when the text is shorter than k; otherwise it returns a
\* table.
CountingRan ==
    /\ options.source # None
    /\ pc \notin {"options", "source"}
    /\ rc # Some(-1)
    /\ error # "FileNotFoundError"
ReferenceCount(t, k, ngram, letter) ==
    Cardinality({i \in 0..(Len(t) - 1) :
                   /\ \A j \in 0..(k - 1) : ngram[j + 1] = t[((i + j) % Len(t)) + 1]
                   /\ letter = t[((i + k) % Len(t)) + 1]})

\* C8: the table of a text holds, for every n-gram and letter, the number
\* of positions of the circular text where the n-gram is followed by the
\* letter, and its keys are the n-grams that occur.
C8_CircularCounts ==
    Counted =>
        LET t == options.source[1]
            k == options.length[1]
        IN  /\ Cardinality(DictKeys(ngrams[1])) = Len(ngrams[1])
            /\ \A g \in SeqsOfLen(LettersOf(t), k) :
                 /\ \A c \in LettersOf(t) :
                      TableCount(ngrams[1], g, <<c>>) = ReferenceCount(t, k, g, c)
                 /\ DictHas(ngrams[1], g) <=>
                        \E c \in LettersOf(t) : ReferenceCount(t, k, g, c) > 0
C8_Witness ==
    /\ Counted
    /\ options.source[1] = <<97, 97, 98>>
    /\ options.length[1] = 3
    /\ TableCount(ngrams[1], <<98, 97, 97>>, <<98>>) = 1

\* C4: in the table of a text every successor n-gram is a key, so
\* build_markov_chain finds every node and every edge leads to a node.
C4_SuccessorsAreKeys ==
    Counted =>
        /\ \A i \in 1..Len(ngrams[1]) :
             \A j \in 1..Len(ngrams[1][i][2]) :
                 DictHas(ngrams[1],
                         NextStateNgram(ngrams[1][i][1], ngrams[1][i][2][j][1]))
        /\ error # "KeyError"
        /\ pc # "build" => chain # None
        /\ chain # None =>
             \A i \in 1..Len(chain[1]) :
                 \A j \in 1..Len(chain[1][i][2].next_states) :
                     DictHas(chain[1], chain[1][i][2].next_states[j][1])
C4_Witness ==
    /\ Counted
    /\ chain # None
    /\ options.source[1] = <<97, 98, 98>>
    /\ options.length[1] = 3

\* C1: generate_text returns a text of exactly the asked length, the
\* first letters of a key of the table when that length is at most k.
C1_ExactLength ==
    output_text # None =>
        /\ Len(output_text[1]) = options.number[1]
        /\ \E g \in DictKeys(ngrams[1]) :
             \A i \in 1..Len(output_text[1]) : i <= Len(g) => output_text[1][i] = g[i]

\* C9: a generated text starts with an n-gram of the table and every later
\* letter is a successor, with a count >= 1, of the k letters before it;
\* "abab" with 1-grams, started at "a", gives "ababab" for 6 letters.
C9_TextFollowsTable ==
    output_text # None =>
        LET s == output_text[1]
            k == ngram_length[1]
        IN  /\ Len(s) >= k
            /\ DictHas(ngrams[1], SubSeq(s, 1, k))
            /\ \A p \in (k + 1)..Len(s) :
                 TableCount(ngrams[1], SubSeq(s, p - k, p - 1), <<s[p]>>) >= 1
            /\ (/\ options.source = Some(TextAbab)
                /\ options.length = Some(1)
                /\ options.number = Some(6)
                /\ s[1] = 97) => s = <<97, 98, 97, 98, 97, 98>>
C9_Witness ==
    /\ output_text = Some(<<97, 98, 97, 98, 97, 98>>)
    /\ options.source = Some(TextAbab)
    /\ options.number = Some(6)

\* r < c / w, exactly.
ExactlyLess(r, c, w) == BitsLess(Append(r, 0), ExactQuotient(c, w))
\* The edge the draw r selects at a node when the weights are the exact
\* fractions count / W: the one whose interval of the cumulated weights
\* holds r.
ExactEdges(from, r) ==
    LET edges == DictGet(chain[1], from).next_states
        count(j) == TableCount(ngrams[1], from, LastLetter(edges[j][1]))
        weight == SumCounts(DictGet(ngrams[1], from))
        before(j) == SumCounts([i \in 1..(j - 1) |-> <<i, count(i)>>])
    IN  {j \in 1..Len(edges) :
            /\ ~ExactlyLess(r, before(j), weight)
            /\ ExactlyLess(r, before(j) + count(j), weight)}

\* C10: get_next_state returns the target of the one edge whose interval
\* of cumulated weights holds the draw, and never finds no next state.
C10_WeightedSelection ==
    probability # None =>
        /\ error # "NoNextState"
        /\ Cardinality(ExactEdges(self[1], probability[1])) = 1
        /\ \A j \in ExactEdges(self[1], probability[1]) :
             node[1] = DictGet(chain[1], self[1]).next_states[j][1]

\* The generated text reached a sink.
Delivered ==
    \/ \E i \in 1..Len(console) : console[i][1] = "Output text"
    \/ output_file # None
    \/ markov_file # None
\* The generated text reached every sink that was asked for.
FullyDelivered ==
    /\ output_text # None
    /\ options.console # None =>
           \E i \in 1..Len(console) : console[i] = <<"Output text", output_text[1]>>
    /\ options.output # None =>
           output_file = Some(write_text_to_file(output_text[1]))
    /\ options.write_markov # None =>
           markov_file = Some(write_ngram_counts_to_file(ngrams[1], ngram_length[1]))
Failed == error # "none" \/ rc = Some(-1)

\* C7 as stated: a run that fails has delivered nothing, and a run that
\* returns 0 has delivered the text to every sink asked for.
C7_NoPartialSuccess ==
    /\ Failed => ~Delivered
    /\ rc = Some(0) => FullyDelivered

\* C7 as amended: a run that fails for any reason but a file that cannot
\* be written has delivered nothing; a run that returns 0 has delivered the
\* text to every sink asked for; a file that cannot be written fails the
\* run after the whole text was generated.
C7_AbortsBeforeOutputUnlessWriteFails ==
    /\ (Failed /\ error # "PermissionError") => ~Delivered
    /\ rc = Some(0) => FullyDelivered
    /\ error = "PermissionError" => output_text # None
C7_Witness ==
    /\ error = "KeyError"
    /\ pc = "done"
    /\ options.output # None
    /\ ~Delivered

\* C2: what write_ngram_counts_to_file wrote, read_ngram_counts_from_file
\* reads back as the same table and the same n-gram length.
C2_RoundTrip ==
    (codec_pc = "loaded" /\ edit = "none") =>
        /\ loaded.error = "none"
        /\ loaded.value[2] = table_length
        /\ Len(loaded.value[1]) = Len(table)
        /\ TableAsMap(loaded.value[1]) = TableAsMap(table)
C2_Witness ==
    /\ codec_pc = "loaded"
    /\ edit = "none"
    /\ loaded.error = "none"
    /\ TableCount(loaded.value[1], <<0, 10>>, <<1114111>>) = 12

\* The header of the file, its data lines and their fields.
HeaderFields == Split(ReadLine(file, 1))
HeaderOk ==
    /\ Len(HeaderFields) = 2
    /\ \A i \in 1..2 : IsDecimal(HeaderFields[i])
HeaderK == DecimalValue(HeaderFields[1])
HeaderN == DecimalValue(HeaderFields[2])
DataLineCount == IF Lines(file) = <<>> THEN 0 ELSE Len(Lines(file)) - 1
DataFields(n) == Split(ReadLine(file, n + 1))
\* The number of fields the n-th data line announces: k + 1 + 2 * M.
AnnouncedFields(n) == HeaderK + 1 + 2 * DecimalValue(DataFields(n)[HeaderK + 1])
\* The header and the data agree: N data lines, each of exactly the fields
\* it announces, all of them numbers.
HeaderMatchesData ==
    /\ HeaderOk
    /\ HeaderN = DataLineCount
    /\ \A n \in 1..DataLineCount :
         /\ Len(DataFields(n)) >= HeaderK + 1
         /\ \A j \in 1..Len(DataFields(n)) : IsDecimal(DataFields(n)[j])
         /\ Len(DataFields(n)) = AnnouncedFields(n)
\* The file holds what the header announces, and maybe more: at least N
\* data lines, each of the first N of at least the fields it announces,
\* those of them numbers.
HeaderCoveredByData ==
    /\ HeaderOk
    /\ HeaderN <= DataLineCount
    /\ \A n \in 1..HeaderN :
         /\ Len(DataFields(n)) >= HeaderK + 1
         /\ \A j \in 1..(HeaderK + 1) : IsDecimal(DataFields(n)[j])
         /\ Len(DataFields(n)) >= AnnouncedFields(n)
         /\ \A j \in 1..AnnouncedFields(n) : IsDecimal(DataFields(n)[j])

\* C5 as stated: reading fails whenever the header and the data do not
\* agree.
C5_FailsOnAnyMismatch ==
    (codec_pc = "loaded" /\ ~HeaderMatchesData) => loaded.error # "none"

\* C5 as amended: reading fails exactly when the file holds less than the
\* header announces or a field that is read is not a number; lines and
\* fields beyond those announced are not read, and the table returned has
\* the n-grams of the first N lines: a field added to a line or a line
\* repeated at the end of the file leaves the table as it was written.
C5_FailsWhenDataIsShort ==
    codec_pc = "loaded" =>
        /\ loaded.error # "none" <=> ~HeaderCoveredByData
        /\ loaded.error = "none" =>
             /\ loaded.value[2] = HeaderK
             /\ DictKeys(loaded.value[1]) =
                    {[j \in 1..HeaderK |-> DecimalValue(DataFields(n)[j])] :
                        n \in 1..HeaderN}
             /\ (\/ edit = "field added"
                 \/ /\ edit = "line added"
                    /\ DataFields(DataLineCount) = DataFields(DataLineCount - 1)) =>
                    TableAsMap(loaded.value[1]) = TableAsMap(table)
C5_Witness ==
    /\ codec_pc = "loaded"
    /\ edit = "line removed"
    /\ HeaderN = 2
    /\ DataLineCount = 1
    /\ loaded.error = "IndexError"
====
